---- MODULE Spec2Model ----
(***************************************************************************)
(* Model of common/docker/client.go: the reconnecting Docker event         *)
(* subscription started by Client.AddObserver, and the address resolution  *)
(* of Client.GetContainerIP.                                               *)
(*                                                                         *)
(* A time.Duration is an int64 count of nanoseconds.  The values that      *)
(* occur here (up to 3 * MaxInterval = 6 * 10^10 ns) are far below 2^63,   *)
(* so int64 never wraps, but they exceed the integers of the model         *)
(* checker; a Duration is therefore kept as two limbs, [us, ns], standing  *)
(* for us * 1000 + ns nanoseconds with 0 <= ns < 1000.  All arithmetic on  *)
(* the limbs is exact integer arithmetic on the nanosecond count.          *)
(***************************************************************************)
EXTENDS Integers, Sequences, FiniteSets, TLC

\* ------------------------------------------------------------------ bounds
MaxLoops == 2
MaxEvents == 2
MaxFailures == 11
MaxSharedFailures == 1

\* --------------------------------------------------------------- durations
D(us, ns) == [us |-> us, ns |-> ns]

Zero == D(0, 0)

Nanosecond == D(0, 1)

Second == D(1000000, 0)

\* d * k for a Duration d and a small integer k >= 0
MulInt(d, k) ==
    LET n == d.ns * k
    IN  D(d.us * k + (n \div 1000), n % 1000)

\* d / k, the truncating int64 division, for k in 1..2000
DivInt(d, k) ==
    D(d.us \div k, (((d.us % k) * 1000) + d.ns) \div k)

Add(a, b) ==
    LET n == a.ns + b.ns
    IN  D(a.us + b.us + (n \div 1000), n % 1000)

\* a - b for a >= b
Sub(a, b) ==
    IF a.ns >= b.ns THEN D(a.us - b.us, a.ns - b.ns)
    ELSE D(a.us - b.us - 1, a.ns + 1000 - b.ns)

Gt(a, b) == a.us > b.us \/ (a.us = b.us /\ a.ns > b.ns)

Ge(a, b) == ~Gt(b, a)

InitialInterval == MulInt(Second, 1)

MaxInterval == MulInt(Second, 20)

\* ------------------------------------------------------------------ inputs
Loops == 1 .. MaxLoops

\* the subscription of a process that calls AddObserver once
OneLoop == {1}

Statuses == {"start", "die", "stop"}

Idents == {"c1", "c2"}

\* a *docker.APIEvents, reduced to the fields the loop reads
Events == [Status : Statuses, ID : Idents]

NetNames == {"bridge", "host", "weave"}

NetAddrs == {"", "172.17.0.2"}

\* info.NetworkSettings.Networks: a nil map, or a map from network name to
\* that network's IPAddress
NetworkMaps ==
    { [isNil |-> TRUE, m |-> <<>>] } \cup
    { [isNil |-> FALSE, m |-> f] :
        f \in UNION { [S -> NetAddrs] : S \in SUBSET NetNames } }

NetworkModes == {"host", "default"}

LegacyAddrs == {"", "10.0.0.5"}

InspectErrors == {"NoSuchContainer", "connection refused"}

\* the (info, err) pairs InspectContainer can return; err = "" is nil
InspectFailed(e) ==
    [err |-> e, Networks |-> [isNil |-> TRUE, m |-> <<>>],
     NetworkMode |-> "", IPAddress |-> ""]

InspectResults ==
    { InspectFailed(e) : e \in InspectErrors } \cup
    [err : {""}, Networks : NetworkMaps, NetworkMode : NetworkModes,
     IPAddress : LegacyAddrs]

NoCall == [called |-> FALSE, name |-> "", addr |-> "", err |-> "", inspects |-> 0]

VARIABLES
    pc,             \* per loop: position of the goroutine
    retryInterval,  \* per loop: the goroutine's local retryInterval
    result,         \* per loop: what AddObserver returned to its caller
    recv,           \* per loop: events received from the streams, in order
    calls,          \* per loop: Observer methods called, in order
    mark,           \* per loop: <<Len(recv), Len(calls)>> when the stream opened
    atListen,       \* per loop: retryInterval at the last AddEventListener call
    since,          \* per loop: time.Since(start) as last observed
    last,           \* per loop: outcome of the last AddEventListener attempt
    slept,          \* per loop: the duration of the last time.Sleep
    failures,       \* per loop: failed opens so far, while no open succeeded
    connected,      \* per loop: some open succeeded
    inspect,        \* what the Docker API answers to InspectContainer
    ip              \* the last GetContainerIP call and what it returned

vars == <<pc, retryInterval, result, recv, calls, mark, atListen, since,
          last, slept, failures, connected, inspect, ip>>

Min(a, b) == IF a < b THEN a ELSE b

\* ---------------------------------------------------------------- the loop
InitLoops ==
    /\ pc = [l \in Loops |-> "none"]
    /\ retryInterval = [l \in Loops |-> Zero]
    /\ result = [l \in Loops |-> "none"]
    /\ recv = [l \in Loops |-> <<>>]
    /\ calls = [l \in Loops |-> <<>>]
    /\ mark = [l \in Loops |-> <<0, 0>>]
    /\ atListen = [l \in Loops |-> Zero]
    /\ since = [l \in Loops |-> Zero]
    /\ last = [l \in Loops |-> "none"]
    /\ slept = [l \in Loops |-> Zero]
    /\ failures = [l \in Loops |-> 0]
    /\ connected = [l \in Loops |-> FALSE]

\* no observer added, no address asked for
Init ==
    /\ InitLoops
    /\ inspect = InspectFailed("NoSuchContainer")
    /\ ip = NoCall

\* Grow with the ratio taken first: 3 / 2 is 1 in integer arithmetic
GrowRatioFirst(r) ==
    LET g == MulInt(r, 3 \div 2)
    IN  IF Gt(g, MaxInterval) THEN MaxInterval ELSE g

\* Grow without the cap of lines 106-108
GrowUncapped(r) == DivInt(MulInt(r, 3), 2)

\* retryInterval = retryInterval * 3 / 2, capped at MaxInterval
Grow(r) ==
    LET g == DivInt(MulInt(r, 3), 2)
    IN  IF Gt(g, MaxInterval) THEN MaxInterval ELSE g

\* AddObserver that starts no second loop on a Client that has one
AddObserverOnce(l) ==
    /\ pc[l] = "none"
    /\ result[l] = "none"
    /\ result' = [result EXCEPT ![l] = "nil"]
    /\ IF \E m \in Loops : pc[m] # "none"
       THEN UNCHANGED <<pc, retryInterval>>
       ELSE /\ pc' = [pc EXCEPT ![l] = "listen"]
            /\ retryInterval' = [retryInterval EXCEPT ![l] = InitialInterval]
    /\ UNCHANGED <<inspect, ip, recv, calls, mark, atListen, since, last, slept,
                   failures, connected>>

\* AddObserver: starts the goroutine and returns nil at once
AddObserver(l) ==
    /\ pc[l] = "none"
    /\ pc' = [pc EXCEPT ![l] = "listen"]
    /\ retryInterval' = [retryInterval EXCEPT ![l] = InitialInterval]
    /\ result' = [result EXCEPT ![l] = "nil"]
    /\ UNCHANGED <<inspect, ip, recv, calls, mark, atListen, since, last, slept,
                   failures, connected>>

\* ListenFail that also hands the error to the caller of AddObserver
ListenFailReported(l) ==
    /\ pc[l] = "listen"
    /\ pc' = [pc EXCEPT ![l] = "sleep"]
    /\ result' = [result EXCEPT ![l] = "error"]
    /\ atListen' = [atListen EXCEPT ![l] = retryInterval[l]]
    /\ last' = [last EXCEPT ![l] = "failed"]
    /\ since' = [since EXCEPT ![l] = Zero]
    /\ failures' = [failures EXCEPT ![l] =
                      IF connected[l] THEN 0 ELSE Min(@ + 1, MaxFailures)]
    /\ UNCHANGED <<inspect, ip, retryInterval, recv, calls, mark, slept, connected>>

\* line 85-86: AddEventListener fails; the error is logged and the loop
\* goes on to the sleep
ListenFail(l) ==
    /\ pc[l] = "listen"
    /\ pc' = [pc EXCEPT ![l] = "sleep"]
    /\ atListen' = [atListen EXCEPT ![l] = retryInterval[l]]
    /\ last' = [last EXCEPT ![l] = "failed"]
    /\ since' = [since EXCEPT ![l] = Zero]
    /\ failures' = [failures EXCEPT ![l] =
                      IF connected[l] THEN 0 ELSE Min(@ + 1, MaxFailures)]
    /\ UNCHANGED <<inspect, ip, retryInterval, result, recv, calls, mark, slept, connected>>

\* line 85, 88: AddEventListener succeeds, start := time.Now()
ListenOk(l) ==
    /\ pc[l] = "listen"
    /\ pc' = [pc EXCEPT ![l] = "range"]
    /\ atListen' = [atListen EXCEPT ![l] = retryInterval[l]]
    /\ last' = [last EXCEPT ![l] = "opened"]
    /\ since' = [since EXCEPT ![l] = Zero]
    /\ mark' = [mark EXCEPT ![l] = <<Len(recv[l]), Len(calls[l])>>]
    /\ connected' = [connected EXCEPT ![l] = TRUE]
    /\ failures' = [failures EXCEPT ![l] = 0]
    /\ UNCHANGED <<inspect, ip, retryInterval, result, recv, calls, slept>>

\* Dispatch with the two cases exchanged
DispatchSwapped(e) ==
    CASE e.Status = "start" -> <<[method |-> "ContainerDied", id |-> e.ID]>>
      [] e.Status = "die"   -> <<[method |-> "ContainerStarted", id |-> e.ID]>>
      [] OTHER              -> <<>>

\* Dispatch whose second case is a default case
DispatchDefault(e) ==
    CASE e.Status = "start" -> <<[method |-> "ContainerStarted", id |-> e.ID]>>
      [] OTHER              -> <<[method |-> "ContainerDied", id |-> e.ID]>>

\* lines 90-97: the Observer calls the switch makes for one event
Dispatch(e) ==
    CASE e.Status = "start" -> <<[method |-> "ContainerStarted", id |-> e.ID]>>
      [] e.Status = "die"   -> <<[method |-> "ContainerDied", id |-> e.ID]>>
      [] OTHER              -> <<>>

\* Receive whose Observer call overtakes the calls made before it
ReceiveReordered(l, e) ==
    /\ pc[l] = "range"
    /\ Len(recv[l]) < MaxEvents
    /\ recv' = [recv EXCEPT ![l] = Append(@, e)]
    /\ calls' = [calls EXCEPT ![l] = Dispatch(e) \o @]
    /\ pc' = [pc EXCEPT ![l] = IF Dispatch(e) = <<>> THEN "range" ELSE "callback"]
    /\ UNCHANGED <<inspect, ip, retryInterval, result, mark, atListen, since,
                   last, slept, failures, connected>>

\* Receive that hands the event to the Observer without waiting for the
\* call before it to return
ReceiveAsync(l, e) ==
    /\ pc[l] \in {"range", "callback"}
    /\ Len(recv[l]) < MaxEvents
    /\ recv' = [recv EXCEPT ![l] = Append(@, e)]
    /\ calls' = [calls EXCEPT ![l] = @ \o Dispatch(e)]
    /\ pc' = [pc EXCEPT ![l] = IF Dispatch(e) = <<>> THEN @ ELSE "callback"]
    /\ UNCHANGED <<inspect, ip, retryInterval, result, mark, atListen, since,
                   last, slept, failures, connected>>

\* Receive that takes start := time.Now() again for every event
ReceiveRestart(l, e) ==
    /\ pc[l] = "range"
    /\ Len(recv[l]) < MaxEvents
    /\ recv' = [recv EXCEPT ![l] = Append(@, e)]
    /\ calls' = [calls EXCEPT ![l] = @ \o Dispatch(e)]
    /\ pc' = [pc EXCEPT ![l] = IF Dispatch(e) = <<>> THEN "range" ELSE "callback"]
    /\ since' = [since EXCEPT ![l] = Zero]
    /\ UNCHANGED <<inspect, ip, retryInterval, result, mark, atListen,
                   last, slept, failures, connected>>

\* lines 89-97: one event arrives on the channel and is dispatched; the loop
\* is inside the Observer's method until it returns
Receive(l, e) ==
    /\ pc[l] = "range"
    /\ Len(recv[l]) < MaxEvents
    /\ recv' = [recv EXCEPT ![l] = Append(@, e)]
    /\ calls' = [calls EXCEPT ![l] = @ \o Dispatch(e)]
    /\ pc' = [pc EXCEPT ![l] = IF Dispatch(e) = <<>> THEN "range" ELSE "callback"]
    /\ UNCHANGED <<inspect, ip, retryInterval, result, mark, atListen, since, last, slept,
                   failures, connected>>

\* lines 93, 96: the Observer's method returns
Return(l) ==
    /\ pc[l] = "callback"
    /\ pc' = [pc EXCEPT ![l] = "range"]
    /\ UNCHANGED <<inspect, ip, retryInterval, result, recv, calls, mark, atListen, since,
                   last, slept, failures, connected>>

\* Closed without the reset of lines 99-101
ClosedNoReset(l, d) ==
    /\ pc[l] = "range"
    /\ Ge(d, since[l])
    /\ pc' = [pc EXCEPT ![l] = "sleep"]
    /\ since' = [since EXCEPT ![l] = d]
    /\ last' = [last EXCEPT ![l] = "closed"]
    /\ UNCHANGED <<inspect, ip, retryInterval, result, recv, calls, mark,
                   atListen, slept, failures, connected>>

\* Closed that compares with >= instead of >
ClosedGe(l, d) ==
    /\ pc[l] = "range"
    /\ Ge(d, since[l])
    /\ pc' = [pc EXCEPT ![l] = "sleep"]
    /\ since' = [since EXCEPT ![l] = d]
    /\ last' = [last EXCEPT ![l] = "closed"]
    /\ retryInterval' = [retryInterval EXCEPT ![l] =
                           IF Ge(d, @) THEN InitialInterval ELSE @]
    /\ UNCHANGED <<inspect, ip, result, recv, calls, mark, atListen, slept,
                   failures, connected>>

\* lines 89, 99-102: the channel is closed; d is what time.Since(start)
\* returns, no less than the time that has been seen to pass
Closed(l, d) ==
    /\ pc[l] = "range"
    /\ Ge(d, since[l])
    /\ pc' = [pc EXCEPT ![l] = "sleep"]
    /\ since' = [since EXCEPT ![l] = d]
    /\ last' = [last EXCEPT ![l] = "closed"]
    /\ retryInterval' = [retryInterval EXCEPT ![l] =
                           IF Gt(d, @) THEN InitialInterval ELSE @]
    /\ UNCHANGED <<inspect, ip, result, recv, calls, mark, atListen, slept, failures,
                   connected>>

\* Sleep after which the goroutine returns instead of looping
SleepExit(l) ==
    /\ pc[l] = "sleep"
    /\ pc' = [pc EXCEPT ![l] = "exit"]
    /\ slept' = [slept EXCEPT ![l] = retryInterval[l]]
    /\ retryInterval' = [retryInterval EXCEPT ![l] = Grow(@)]
    /\ UNCHANGED <<inspect, ip, result, recv, calls, mark, atListen, since,
                   last, failures, connected>>

\* Sleep on a retryInterval that all the loops of the Client share
SleepShared(l) ==
    /\ pc[l] = "sleep"
    /\ pc' = [pc EXCEPT ![l] = "listen"]
    /\ slept' = [slept EXCEPT ![l] = retryInterval[l]]
    /\ retryInterval' = [m \in Loops |->
                           IF pc[m] = "none" THEN retryInterval[m]
                           ELSE Grow(retryInterval[l])]
    /\ UNCHANGED <<inspect, ip, result, recv, calls, mark, atListen, since,
                   last, failures, connected>>

\* lines 104-108: time.Sleep(retryInterval) completes, the interval grows,
\* and the loop is back at its head
Sleep(l) ==
    /\ pc[l] = "sleep"
    /\ pc' = [pc EXCEPT ![l] = "listen"]
    /\ slept' = [slept EXCEPT ![l] = retryInterval[l]]
    /\ retryInterval' = [retryInterval EXCEPT ![l] = Grow(@)]
    /\ UNCHANGED <<inspect, ip, result, recv, calls, mark, atListen, since, last, failures,
                   connected>>

\* the values time.Since(start) is drawn from when a stream closes: around
\* the loop's retryInterval and beyond MaxInterval
SinceChoices(l) ==
    { Zero,
      Sub(retryInterval[l], Nanosecond),
      retryInterval[l],
      Add(retryInterval[l], Nanosecond),
      Add(MaxInterval, Nanosecond) }

\* lines 88-99: time passes while the stream is open; time.Since(start)
\* would now return d
Elapse(l, d) ==
    /\ pc[l] \in {"range", "callback"}
    /\ Gt(d, since[l])
    /\ since' = [since EXCEPT ![l] = d]
    /\ UNCHANGED <<inspect, ip, pc, retryInterval, result, recv, calls, mark,
                   atListen, last, slept, failures, connected>>

Next ==
    \E l \in OneLoop :
        \/ AddObserver(l)
        \/ ListenFail(l)
        \/ ListenOk(l)
        \/ \E e \in Events : Receive(l, e)
        \/ Return(l)
        \/ \E d \in SinceChoices(l) : Elapse(l, d)
        \/ \E d \in SinceChoices(l) : Closed(l, d)
        \/ Sleep(l)

Spec == Init /\ [][Next]_vars

\* the goroutine is scheduled: a sleep ends, a call of AddEventListener
\* returns, and the Observer's methods return.  Nothing makes a stream close
\* or an event arrive.
FairSpec ==
    /\ Spec
    /\ \A l \in OneLoop :
        /\ WF_vars(Sleep(l))
        /\ WF_vars(ListenFail(l) \/ ListenOk(l))
        /\ WF_vars(Return(l))

\* ------------------------------------------------- several AddObserver calls
\* an event the Docker API sends to every listener
SharedEvent == [Status |-> "start", ID |-> "c1"]

\* the connection durations tried when several loops run: none, and longer
\* than the loop's retryInterval
SharedSince(l) == { Zero, Add(retryInterval[l], Nanosecond) }

\* AddObserver is called up to MaxLoops times on one Client.  Each loop
\* fails to open its stream at most MaxSharedFailures times, has one
\* connection, and stops being followed at its next attempt.
NextShared ==
    \E l \in Loops :
        \/ AddObserver(l)
        \/ (~connected[l] /\ failures[l] < MaxSharedFailures /\ ListenFail(l))
        \/ (~connected[l] /\ ListenOk(l))
        \/ Receive(l, SharedEvent)
        \/ Return(l)
        \/ \E d \in SharedSince(l) : Closed(l, d)
        \/ Sleep(l)

SpecShared == Init /\ [][NextShared]_vars

\* ---------------------------------------------------------- GetContainerIP
\* ContainerIP that takes the bridge address only when it is not empty
ContainerIPSkipEmpty(res, nameOrID) ==
    IF res.err # "" THEN [addr |-> "", err |-> res.err]
    ELSE IF /\ ~res.Networks.isNil
            /\ "bridge" \in DOMAIN res.Networks.m
            /\ res.Networks.m["bridge"] # ""
        THEN [addr |-> res.Networks.m["bridge"], err |-> ""]
    ELSE IF ~res.Networks.isNil /\ "host" \in DOMAIN res.Networks.m
        THEN [addr |-> "127.0.0.1", err |-> ""]
    ELSE IF res.Networks.isNil /\ res.NetworkMode = "host"
        THEN [addr |-> "127.0.0.1", err |-> ""]
    ELSE IF res.IPAddress = ""
        THEN [addr |-> "", err |-> "No IP address found for container " \o nameOrID]
    ELSE [addr |-> res.IPAddress, err |-> ""]

\* ContainerIP that returns the address of the host entry
ContainerIPHostAddr(res, nameOrID) ==
    IF res.err # "" THEN [addr |-> "", err |-> res.err]
    ELSE IF ~res.Networks.isNil /\ "bridge" \in DOMAIN res.Networks.m
        THEN [addr |-> res.Networks.m["bridge"], err |-> ""]
    ELSE IF ~res.Networks.isNil /\ "host" \in DOMAIN res.Networks.m
        THEN [addr |-> res.Networks.m["host"], err |-> ""]
    ELSE IF res.Networks.isNil /\ res.NetworkMode = "host"
        THEN [addr |-> "127.0.0.1", err |-> ""]
    ELSE IF res.IPAddress = ""
        THEN [addr |-> "", err |-> "No IP address found for container " \o nameOrID]
    ELSE [addr |-> res.IPAddress, err |-> ""]

\* ContainerIP whose error does not name the container
ContainerIPAnonymous(res, nameOrID) ==
    IF res.err # "" THEN [addr |-> "", err |-> res.err]
    ELSE IF ~res.Networks.isNil /\ "bridge" \in DOMAIN res.Networks.m
        THEN [addr |-> res.Networks.m["bridge"], err |-> ""]
    ELSE IF ~res.Networks.isNil /\ "host" \in DOMAIN res.Networks.m
        THEN [addr |-> "127.0.0.1", err |-> ""]
    ELSE IF res.Networks.isNil /\ res.NetworkMode = "host"
        THEN [addr |-> "127.0.0.1", err |-> ""]
    ELSE IF res.IPAddress = ""
        THEN [addr |-> "", err |-> "No IP address found for container"]
    ELSE [addr |-> res.IPAddress, err |-> ""]

\* ContainerIP that goes on to the rules when inspect has failed
ContainerIPRulesOnError(res, nameOrID) ==
    IF FALSE THEN [addr |-> "", err |-> res.err]
    ELSE IF ~res.Networks.isNil /\ "bridge" \in DOMAIN res.Networks.m
        THEN [addr |-> res.Networks.m["bridge"], err |-> ""]
    ELSE IF ~res.Networks.isNil /\ "host" \in DOMAIN res.Networks.m
        THEN [addr |-> "127.0.0.1", err |-> ""]
    ELSE IF res.Networks.isNil /\ res.NetworkMode = "host"
        THEN [addr |-> "127.0.0.1", err |-> ""]
    ELSE IF res.IPAddress = ""
        THEN [addr |-> "", err |-> "No IP address found for container " \o nameOrID]
    ELSE [addr |-> res.IPAddress, err |-> ""]

\* ContainerIP that consults the network mode whether or not Networks is nil
ContainerIPModeAlways(res, nameOrID) ==
    IF res.err # "" THEN [addr |-> "", err |-> res.err]
    ELSE IF ~res.Networks.isNil /\ "bridge" \in DOMAIN res.Networks.m
        THEN [addr |-> res.Networks.m["bridge"], err |-> ""]
    ELSE IF ~res.Networks.isNil /\ "host" \in DOMAIN res.Networks.m
        THEN [addr |-> "127.0.0.1", err |-> ""]
    ELSE IF res.NetworkMode = "host"
        THEN [addr |-> "127.0.0.1", err |-> ""]
    ELSE IF res.IPAddress = ""
        THEN [addr |-> "", err |-> "No IP address found for container " \o nameOrID]
    ELSE [addr |-> res.IPAddress, err |-> ""]

\* ContainerIP without the test of line 146
ContainerIPNoCheck(res, nameOrID) ==
    IF res.err # "" THEN [addr |-> "", err |-> res.err]
    ELSE IF ~res.Networks.isNil /\ "bridge" \in DOMAIN res.Networks.m
        THEN [addr |-> res.Networks.m["bridge"], err |-> ""]
    ELSE IF ~res.Networks.isNil /\ "host" \in DOMAIN res.Networks.m
        THEN [addr |-> "127.0.0.1", err |-> ""]
    ELSE IF res.Networks.isNil /\ res.NetworkMode = "host"
        THEN [addr |-> "127.0.0.1", err |-> ""]
    ELSE [addr |-> res.IPAddress, err |-> ""]

\* lines 132-149: the (address, error) GetContainerIP returns for the answer
\* res of InspectContainer(nameOrID); err = "" is nil
ContainerIP(res, nameOrID) ==
    IF res.err # "" THEN [addr |-> "", err |-> res.err]
    ELSE IF ~res.Networks.isNil /\ "bridge" \in DOMAIN res.Networks.m
        THEN [addr |-> res.Networks.m["bridge"], err |-> ""]
    ELSE IF ~res.Networks.isNil /\ "host" \in DOMAIN res.Networks.m
        THEN [addr |-> "127.0.0.1", err |-> ""]
    ELSE IF res.Networks.isNil /\ res.NetworkMode = "host"
        THEN [addr |-> "127.0.0.1", err |-> ""]
    ELSE IF res.IPAddress = ""
        THEN [addr |-> "", err |-> "No IP address found for container " \o nameOrID]
    ELSE [addr |-> res.IPAddress, err |-> ""]

\* a call of GetContainerIP(nameOrID): one InspectContainer, then the rules
GetContainerIP(nameOrID) ==
    /\ ip' = [called |-> TRUE, name |-> nameOrID,
              addr |-> ContainerIP(inspect, nameOrID).addr,
              err |-> ContainerIP(inspect, nameOrID).err,
              inspects |-> 1]
    /\ UNCHANGED <<pc, retryInterval, result, recv, calls, mark, atListen,
                   since, last, slept, failures, connected, inspect>>

\* the Docker API may answer InspectContainer in any of the modelled ways
InitIP ==
    /\ InitLoops
    /\ inspect \in InspectResults
    /\ ip = NoCall

NextIP == \E n \in Idents : GetContainerIP(n)

SpecIP == InitIP /\ [][NextIP]_vars

\* ------------------------------------------------------------------ claims
RECURSIVE Pow(_, _)
Pow(b, k) == IF k = 0 THEN 1 ELSE b * Pow(b, k - 1)

RECURSIVE Times3(_, _)
Times3(d, k) == IF k = 0 THEN d ELSE Times3(MulInt(d, 3), k - 1)

\* min(1s * (3/2)^(n-1), 20s) as an exact count of nanoseconds, computed
\* without dividing a Duration: 10^9 / 2^(n-1) first, then n-1 times 3.
\* It is exact where 2^(n-1) divides 10^9; ExactBackoff(n) says so.
ExactBackoff(n) ==
    \/ Pow(3, n - 1) > 20 * Pow(2, n - 1)
    \/ 1000000000 % Pow(2, n - 1) = 0

Backoff(n) ==
    IF Pow(3, n - 1) > 20 * Pow(2, n - 1) THEN MulInt(Second, 20)
    ELSE LET q == 1000000000 \div Pow(2, n - 1)
         IN  Times3(D(q \div 1000, q % 1000), n - 1)

\* 1s, 1.5s, 2.25s, 3.375s, 5.0625s, 7.59375s, 11.390625s, 17.0859375s, 20s
SleepTable ==
    << D(1000000, 0), D(1500000, 0), D(2250000, 0), D(3375000, 0),
       D(5062500, 0), D(7593750, 0), D(11390625, 0), D(17085937, 500),
       D(20000000, 0) >>

TableEntry(n) == SleepTable[IF n < Len(SleepTable) THEN n ELSE Len(SleepTable)]

\* C1: while every attempt to open the stream has failed, the sleep before
\* the Nth retry lasts min(1s * (3/2)^(N-1), 20s) exactly: 1s, 1.5s, 2.25s,
\* 3.375s, 5.0625s, 7.59375s, 11.390625s, 17.0859375s, then 20s.  (A count
\* that has reached MaxFailures stands for every N from there on.)
C1_BackoffSequence ==
    \A l \in Loops :
        (~connected[l] /\ failures[l] >= 1) =>
            /\ ExactBackoff(failures[l])
            /\ pc[l] = "sleep" =>
                  /\ retryInterval[l] = Backoff(failures[l])
                  /\ retryInterval[l] = TableEntry(failures[l])
            /\ pc[l] = "listen" =>
                  /\ slept[l] = Backoff(failures[l])
                  /\ slept[l] = TableEntry(failures[l])

\* eight failed opens and eight sleeps: the last one lasted 17.0859375s
C1_Witness ==
    \E l \in Loops :
        /\ ~connected[l]
        /\ failures[l] = 8
        /\ pc[l] = "listen"
        /\ slept[l] = D(17085937, 500)

\* the stream of the last attempt closed after more than the retryInterval
\* it was opened with
LongLived(l) == last[l] = "closed" /\ Gt(since[l], atListen[l])

\* C2: when a stream closes after staying open strictly longer than the
\* retryInterval it was opened with, the sleep that follows lasts
\* InitialInterval, and the next attempt runs with retryInterval = 1.5s.
C2_ResetAfterLongConnection ==
    \A l \in Loops :
        LongLived(l) =>
            /\ pc[l] \in {"sleep", "listen"}
            /\ pc[l] = "sleep" => retryInterval[l] = InitialInterval
            /\ pc[l] = "listen" =>
                  /\ slept[l] = InitialInterval
                  /\ retryInterval[l] = D(1500000, 0)

\* a stream opened with retryInterval = 20s stayed open longer than 20s, and
\* the sleep after its closure is over
C2_Witness ==
    \E l \in Loops :
        /\ LongLived(l)
        /\ atListen[l] = MaxInterval
        /\ pc[l] = "listen"
        /\ slept[l] = InitialInterval

\* r * 3 / 2 capped at MaxInterval, the cap decided before the division
NextBackoff(r) ==
    IF Gt(MulInt(r, 3), MulInt(MaxInterval, 2)) THEN MaxInterval
    ELSE DivInt(MulInt(r, 3), 2)

\* C3: a sleep is at least as long as the one before unless a reset happened
\* in between; retryInterval is reset to InitialInterval exactly when a
\* stream closes after more than retryInterval; a failed open and a
\* connection that lived at most retryInterval leave it alone, and the sleep
\* after either lasts the interval of the attempt and grows it once.
C3_MonotoneUnlessReset ==
    [][\A l \in Loops :
        /\ (pc[l] = "sleep" /\ pc'[l] # "sleep" /\ ~LongLived(l)) =>
              /\ Ge(slept'[l], slept[l])
              /\ slept'[l] = atListen[l]
              /\ retryInterval'[l] = NextBackoff(atListen[l])
        /\ (pc[l] = "range" /\ pc'[l] = "sleep") =>
              retryInterval'[l] =
                  IF Gt(since'[l], retryInterval[l])
                  THEN InitialInterval ELSE retryInterval[l]
        /\ (pc[l] = "listen" /\ pc'[l] = "sleep") =>
              retryInterval'[l] = retryInterval[l]
        /\ (pc[l] # "none" /\ retryInterval'[l] = InitialInterval
                /\ retryInterval[l] # InitialInterval) =>
              /\ pc[l] = "range" /\ pc'[l] = "sleep"
              /\ Gt(since'[l], retryInterval[l])
    ]_vars

\* a stream opened with retryInterval = 1.5s closed after exactly 1.5s: the
\* sleep lasted 1.5s and the interval went on to 2.25s
C3_Witness ==
    \E l \in Loops :
        /\ last[l] = "closed"
        /\ atListen[l] = D(1500000, 0)
        /\ since[l] = atListen[l]
        /\ pc[l] = "listen"
        /\ slept[l] = D(1500000, 0)
        /\ retryInterval[l] = D(2250000, 0)

InRange(d) == Ge(d, InitialInterval) /\ Ge(MaxInterval, d)

\* C4: the retryInterval of a running loop, the interval a connection's
\* duration is compared with, and every duration slept lie between
\* InitialInterval and MaxInterval inclusive.
C4_IntervalBounds ==
    \A l \in Loops :
        /\ pc[l] # "none" => InRange(retryInterval[l])
        /\ last[l] # "none" => InRange(atListen[l])
        /\ slept[l] # Zero => InRange(slept[l])

\* after failures, short and long connections: a sleep of MaxInterval, and
\* the interval still at MaxInterval
C4_Witness ==
    \E l \in Loops :
        /\ connected[l]
        /\ pc[l] = "listen"
        /\ slept[l] = MaxInterval
        /\ retryInterval[l] = MaxInterval

\* C5: the loop has no terminal state: after a failed open and after a
\* stream closure the sleep leads back to the head of the loop, and from
\* there AddEventListener is called again.
C5_AlwaysRetries ==
    \A l \in OneLoop :
        /\ [](pc[l] \in {"none", "listen", "range", "callback", "sleep"})
        /\ (pc[l] = "sleep") ~> (pc[l] = "listen")
        /\ (pc[l] = "listen") ~> (pc[l] \in {"sleep", "range"})

\* the loop is about to retry after a closure that followed failures
C5_Witness ==
    \E l \in Loops :
        /\ pc[l] = "listen"
        /\ last[l] = "closed"
        /\ slept[l] = MaxInterval

Started(id) == [method |-> "ContainerStarted", id |-> id]

Died(id) == [method |-> "ContainerDied", id |-> id]

\* the event a step has just received, if it received one
Received(l) == recv[l]'[Len(recv[l]')]

Receives(l) == Len(recv[l]') = Len(recv[l]) + 1

\* C6: an event with status "start" makes exactly one call, of
\* ContainerStarted with the event's ID; an event with status "die" exactly
\* one call, of ContainerDied with the event's ID; no other step of the loop
\* calls the Observer.
C6_StartAndDie ==
    [][\A l \in Loops :
        /\ (Receives(l) /\ Received(l).Status = "start") =>
              calls'[l] = Append(calls[l], Started(Received(l).ID))
        /\ (Receives(l) /\ Received(l).Status = "die") =>
              calls'[l] = Append(calls[l], Died(Received(l).ID))
        /\ calls'[l] # calls[l] => Receives(l)
    ]_vars

\* a start and a die event have been received and answered
C6_Witness ==
    \E l \in Loops :
        /\ recv[l] = << [Status |-> "start", ID |-> "c1"],
                        [Status |-> "die", ID |-> "c2"] >>
        /\ calls[l] = << Started("c1"), Died("c2") >>
        /\ pc[l] = "range"

\* C7: an event whose status is neither "start" nor "die" calls no Observer
\* method and changes neither the calls made so far nor the backoff state.
C7_OtherEventsIgnored ==
    [][\A l \in Loops :
        (Receives(l) /\ Received(l).Status \notin {"start", "die"}) =>
            /\ calls'[l] = calls[l]
            /\ retryInterval'[l] = retryInterval[l]
            /\ atListen'[l] = atListen[l]
            /\ since'[l] = since[l]
            /\ slept'[l] = slept[l]
            /\ pc'[l] = "range"
    ]_vars

\* a "stop" event was received after a "start" event: one call only
C7_Witness ==
    \E l \in Loops :
        /\ recv[l] = << [Status |-> "start", ID |-> "c1"],
                        [Status |-> "stop", ID |-> "c1"] >>
        /\ calls[l] = << Started("c1") >>
        /\ pc[l] = "range"

\* the calls a sequence of events asks for, in the order of the events
RECURSIVE CallsOf(_)
CallsOf(es) ==
    IF es = <<>> THEN <<>>
    ELSE LET e == Head(es)
         IN  (IF e.Status = "start" THEN <<Started(e.ID)>>
              ELSE IF e.Status = "die" THEN <<Died(e.ID)>>
              ELSE <<>>) \o CallsOf(Tail(es))

\* the events received on, and the calls made during, the latest connection
ConnEvents(l) == SubSeq(recv[l], mark[l][1] + 1, Len(recv[l]))

ConnCalls(l) == SubSeq(calls[l], mark[l][2] + 1, Len(calls[l]))

\* C8: within one connection the calls made are the start/die events
\* received on it, in the order received, none repeated, none left out.
C8_CallsInStreamOrder ==
    \A l \in Loops : ConnCalls(l) = CallsOf(ConnEvents(l))

\* two events of one connection, answered in their order
C8_Witness ==
    \E l \in Loops :
        /\ mark[l] = <<0, 0>>
        /\ recv[l] = << [Status |-> "die", ID |-> "c2"],
                        [Status |-> "start", ID |-> "c1"] >>
        /\ calls[l] = << Died("c2"), Started("c1") >>

\* C9: AddObserver returns nil before any attempt to open the stream, and
\* what it returned never changes; a failed open, a closure and the sleep
\* call no Observer method.
C9_NilAndSilent ==
    [][\A l \in Loops :
        /\ pc'[l] # "none" => result'[l] = "nil"
        /\ (pc[l] = "none" /\ pc'[l] # "none") =>
              pc'[l] = "listen" /\ last'[l] = "none"
        /\ (pc[l] \in {"listen", "sleep"} \/
                (pc[l] # "sleep" /\ pc'[l] = "sleep")) =>
              calls'[l] = calls[l]
    ]_vars

\* an open failed after the Observer had been called: nil was returned and
\* the calls are the ones made on the stream
C9_Witness ==
    \E l \in Loops :
        /\ result[l] = "nil"
        /\ last[l] = "failed"
        /\ pc[l] = "sleep"
        /\ calls[l] = << Started("c1") >>

\* the inspected container has a "bridge" entry in a non-nil Networks map
HasBridge ==
    /\ inspect.err = ""
    /\ ~inspect.Networks.isNil
    /\ "bridge" \in DOMAIN inspect.Networks.m

\* C10: when inspect succeeds and Networks has a "bridge" entry, the result
\* is that entry's address and a nil error, also when the address is empty,
\* a "host" entry is present, the mode is "host" or the legacy field is set.
C10_BridgeFirst ==
    (ip.called /\ HasBridge) =>
        /\ ip.addr = inspect.Networks.m["bridge"]
        /\ ip.err = ""

\* an empty bridge address is returned although a host entry, host mode and
\* a legacy address are there
C10_Witness ==
    /\ ip.called
    /\ HasBridge
    /\ inspect.Networks.m["bridge"] = ""
    /\ "host" \in DOMAIN inspect.Networks.m
    /\ inspect.NetworkMode = "host"
    /\ inspect.IPAddress = "10.0.0.5"
    /\ ip.addr = ""
    /\ ip.err = ""

\* the inspected container has a non-nil Networks map with a "host" entry
\* and no "bridge" entry
HostEntryOnly ==
    /\ ~inspect.Networks.isNil
    /\ "bridge" \notin DOMAIN inspect.Networks.m
    /\ "host" \in DOMAIN inspect.Networks.m

\* the inspected container has a nil Networks map and network mode "host"
HostModeOnly ==
    /\ inspect.Networks.isNil
    /\ inspect.NetworkMode = "host"

LegacyCase ==
    /\ inspect.err = ""
    /\ ~HasBridge
    /\ ~HostEntryOnly
    /\ ~HostModeOnly

\* C12: when inspect succeeds and no bridge, host-entry or host-mode rule
\* applies, the result is the legacy address with a nil error if it is not
\* empty, and otherwise an empty address with the error "No IP address found
\* for container <nameOrID>".
C12_LegacyOrError ==
    (ip.called /\ LegacyCase) =>
        IF inspect.IPAddress # ""
        THEN ip.addr = inspect.IPAddress /\ ip.err = ""
        ELSE /\ ip.addr = ""
             /\ ip.err = "No IP address found for container " \o ip.name

\* nil Networks, mode not "host", no legacy address: the error names "c2"
C12_Witness ==
    /\ ip.called
    /\ LegacyCase
    /\ inspect.Networks.isNil
    /\ inspect.IPAddress = ""
    /\ ip.name = "c2"
    /\ ip.addr = ""
    /\ ip.err = "No IP address found for container c2"

\* C13: a call makes one InspectContainer call; when that fails the result
\* is an empty address with the error InspectContainer gave.
C13_InspectErrorPropagates ==
    ip.called =>
        /\ ip.inspects = 1
        /\ inspect.err # "" => (ip.addr = "" /\ ip.err = inspect.err)

\* the container does not exist: the error comes back as it is
C13_Witness ==
    /\ ip.called
    /\ inspect.err = "NoSuchContainer"
    /\ ip.inspects = 1
    /\ ip.addr = ""
    /\ ip.err = "NoSuchContainer"

\* the inspected container has a non-nil Networks map, possibly empty, with
\* neither a "bridge" nor a "host" entry
NeitherEntry ==
    /\ inspect.err = ""
    /\ ~inspect.Networks.isNil
    /\ "bridge" \notin DOMAIN inspect.Networks.m
    /\ "host" \notin DOMAIN inspect.Networks.m

C19_AddressOrError ==
    ip.called =>
        /\ ip.err = "" \/ ip.addr = ""
        /\ (ip.addr = "" /\ ip.err = "") =>
              (HasBridge /\ inspect.Networks.m["bridge"] = "")

\* the empty bridge address, returned without an error
C19_Witness ==
    /\ ip.called
    /\ HasBridge
    /\ inspect.Networks.m["bridge"] = ""
    /\ inspect.IPAddress = ""
    /\ ip.addr = ""
    /\ ip.err = ""

\* C16: while a ContainerStarted or ContainerDied call has not returned, the
\* loop receives no event, detects no closure, does not sleep and does not
\* reconnect: its only step is the return of that call.
C16_CallbackBlocksLoop ==
    [][\A l \in Loops :
        pc[l] = "callback" =>
            /\ pc'[l] \in {"callback", "range"}
            /\ recv'[l] = recv[l]
            /\ calls'[l] = calls[l]
            /\ retryInterval'[l] = retryInterval[l]
            /\ atListen'[l] = atListen[l]
            /\ last'[l] = last[l]
            /\ slept'[l] = slept[l]
            /\ mark'[l] = mark[l]
    ]_vars

\* the loop is inside a callback and the stream has been open for longer
\* than MaxInterval
C16_Witness ==
    \E l \in Loops :
        /\ pc[l] = "callback"
        /\ Len(calls[l]) = 1
        /\ Gt(since[l], MaxInterval)
        /\ last[l] = "opened"

Streaming(l) == pc[l] \in {"range", "callback"}

\* C18: while a stream is open no event and no callback changes
\* retryInterval or the start time of the connection: retryInterval stays
\* the value it had when the stream was opened, an event and a return leave
\* the time since start as it is, and the closure compares the connection's
\* duration with the value of the opening.
C18_StreamLeavesBackoffAlone ==
    [][\A l \in Loops :
        /\ Streaming(l)' => retryInterval'[l] = atListen'[l]
        /\ (Streaming(l) /\ Streaming(l)') => atListen'[l] = atListen[l]
        /\ (Streaming(l) /\ (Receives(l) \/ pc'[l] # pc[l]) /\ pc'[l] # "sleep") =>
              since'[l] = since[l]
        /\ (Streaming(l) /\ pc'[l] = "sleep") =>
              /\ retryInterval[l] = atListen[l]
              /\ retryInterval'[l] =
                    IF Gt(since'[l], atListen[l])
                    THEN InitialInterval ELSE atListen[l]
    ]_vars

\* a stream opened with retryInterval = 1.5s delivered events, stayed open
\* for exactly 1.5s and closed: the interval is still 1.5s
C18_Witness ==
    \E l \in Loops :
        /\ pc[l] = "sleep"
        /\ last[l] = "closed"
        /\ Len(recv[l]) > mark[l][1]
        /\ Len(calls[l]) > mark[l][2]
        /\ atListen[l] = D(1500000, 0)
        /\ since[l] = atListen[l]
        /\ retryInterval[l] = atListen[l]

Running == { l \in Loops : pc[l] # "none" }

\* a step of loop l: something of its own state other than the clock moves
Steps(l) ==
    \/ pc'[l] # pc[l]
    \/ retryInterval'[l] # retryInterval[l]
    \/ recv'[l] # recv[l]
    \/ calls'[l] # calls[l]

\* C14: every AddObserver call starts a loop of its own, whatever loops
\* already run, with its retryInterval at InitialInterval and no connection
\* yet; a step of one loop (failure, closure, reset, sleep, event) changes
\* nothing of another loop; and every loop that receives an event makes its
\* own call, also when another loop has made the same call.
C14_IndependentLoops ==
    [][\A l \in Loops :
        /\ (result'[l] # result[l]) =>
              /\ pc[l] = "none" /\ pc'[l] = "listen"
              /\ retryInterval'[l] = InitialInterval
              /\ since'[l] = Zero /\ last'[l] = "none"
        /\ Steps(l) =>
              \A m \in Loops \ {l} :
                  /\ pc'[m] = pc[m]
                  /\ retryInterval'[m] = retryInterval[m]
                  /\ atListen'[m] = atListen[m]
                  /\ since'[m] = since[m]
                  /\ slept'[m] = slept[m]
                  /\ recv'[m] = recv[m]
                  /\ calls'[m] = calls[m]
        /\ Receives(l) => calls'[l] = calls[l] \o CallsOf(<<Received(l)>>)
    ]_vars

\* two loops, one opened after a failure and reset by a long connection,
\* the other still connected with its first interval; both received the
\* same event and both called ContainerStarted
C14_Witness ==
    \E l, m \in Loops :
        /\ l # m
        /\ recv[l] = <<SharedEvent>> /\ recv[m] = <<SharedEvent>>
        /\ calls[l] = <<Started("c1")>> /\ calls[m] = <<Started("c1")>>
        /\ atListen[l] = D(1500000, 0) /\ LongLived(l)
        /\ pc[l] = "listen" /\ retryInterval[l] = D(1500000, 0)
        /\ pc[m] = "range" /\ retryInterval[m] = InitialInterval

\* C15 as stated: at most one subscription loop runs per Client.
C15_AtMostOneLoop == Cardinality(Running) <= 1

\* C15, amended: one loop per AddObserver call: the loops that run are
\* those of the calls that have returned, as many as there were calls.
C15_OneLoopPerCall ==
    /\ Running = { l \in Loops : result[l] = "nil" }
    /\ Cardinality(Running) = Cardinality({ l \in Loops : result[l] # "none" })

\* every AddObserver call the model allows has been made and each has its
\* loop
C15_Witness ==
    /\ Cardinality(Running) = MaxLoops
    /\ \A l \in Loops : result[l] = "nil" /\ connected[l]

====
